---------------------------- MODULE Spec2Model ----------------------------
(***************************************************************************)
(* Model of ia_provider/exporter.py: MarkdownToDocxConverter (style        *)
(* resolution, inline renderer, block renderer, Markdown block converter)  *)
(* and generer_export_docx (batch document assembler).                     *)
(*                                                                         *)
(* Conventions.  A Python string is a sequence of characters (tokens);    *)
(* the empty string and None are both <<>> where the code only tests      *)
(* truthiness.  An optional attribute of a run is <<>> (unset, None) or   *)
(* <<v>> (set to v).  A dict is a function whose DOMAIN is its key set.   *)
(***************************************************************************)
EXTENDS Integers, Sequences, FiniteSets, TLC

VARIABLES
    pc,              \* position of the call being modelled
    styles,          \* MarkdownToDocxConverter.styles (the style registry)
    doc,             \* the document: the sequence of its top-level blocks
    err,             \* the exception propagating out of the call, or "none"
    elem,            \* argument of _process_element
    list_style,      \* argument of _process_element
    resultats,       \* argument of generer_export_docx
    succeeded,       \* local list of generer_export_docx
    failed,          \* local list of generer_export_docx
    idx,             \* items of succeeded already emitted by the main loop
    output,          \* value returned by generer_export_docx, <<>> when none
    run,             \* argument of _apply_style
    style_name,      \* argument of _apply_style
    style_overrides, \* argument of _apply_style
    style            \* local dict of _apply_style

vars == <<pc, styles, doc, err, elem, list_style, resultats, succeeded,
          failed, idx, output, run, style_name, style_overrides, style>>

----------------------------------------------------------------------------
(* Dicts and optional values *)

\* the value of a variable the call being modelled does not use
Idle == <<>>

EmptyDict == [k \in {} |-> TRUE]

\* dict.get(k, default)
Get(d, k, default) == IF k \in DOMAIN d THEN d[k] ELSE default

\* {**a, **b}
MergeDicts(a, b) ==
    [k \in (DOMAIN a) \cup (DOMAIN b) |-> IF k \in DOMAIN b THEN b[k] ELSE a[k]]

\* Python's digits, used to build distinct texts
Digit(i) == <<"1", "2", "3", "4", "5", "6", "7", "8", "9">>[i]

RECURSIVE Flatten(_)
Flatten(ss) == IF ss = <<>> THEN <<>> ELSE Head(ss) \o Flatten(Tail(ss))

----------------------------------------------------------------------------
(* Runs and _apply_style *)

StyleKeys == {"font_name", "font_size", "font_color_rgb", "is_bold", "is_italic"}

\* paragraph.add_run(text): a run with no formatting set
NewRun(text) ==
    [text |-> text, font_name |-> <<>>, east_asia |-> <<>>, font_size |-> <<>>,
     font_color_rgb |-> <<>>, bold |-> <<>>, italic |-> <<>>]

\* self.styles.get(style_name, {})
BaseStyle(registry, name) == Get(registry, name, EmptyDict)

EffectiveStyleMut(registry, name, overrides) ==
    MergeDicts(overrides, BaseStyle(registry, name))

\* style = {**self.styles.get(style_name, {}), **(style_overrides or {})}
EffectiveStyle(registry, name, overrides) ==
    MergeDicts(BaseStyle(registry, name), overrides)

SetEmphasisMut(r, st) ==
    [r EXCEPT !.bold = IF Get(st, "is_bold", FALSE) THEN <<TRUE>> ELSE @,
              !.italic = IF Get(st, "is_italic", FALSE) THEN <<TRUE>> ELSE @]

\* run.bold = style.get("is_bold", False); run.italic = style.get("is_italic", False)
SetEmphasis(r, st) ==
    [r EXCEPT !.bold = <<Get(st, "is_bold", FALSE)>>,
              !.italic = <<Get(st, "is_italic", FALSE)>>]

\* "if font_name := style.get("font_name")" and the two tests after it: a
\* missing key gives None, and None, "", 0 and () are all false
SetFont(r, st) ==
    LET fn == Get(st, "font_name", "")
        sz == Get(st, "font_size", 0)
        co == Get(st, "font_color_rgb", <<>>)
    IN [r EXCEPT !.font_name = IF fn # "" THEN <<fn>> ELSE @,
                 !.east_asia = IF fn # "" THEN <<fn>> ELSE @,
                 !.font_size = IF sz # 0 THEN <<sz>> ELSE @,
                 !.font_color_rgb = IF co # <<>> THEN <<co>> ELSE @]

\* _apply_style(run, style_overrides, style_name=...)
ApplyStyle(registry, r, overrides, name) ==
    LET st == EffectiveStyle(registry, name, overrides)
    IN SetEmphasis(SetFont(r, st), st)

\* run.font.name = "Consolas"; rFonts.set(qn("w:eastAsia"), "Consolas")
ForceConsolas(r) ==
    [r EXCEPT !.font_name = <<"Consolas">>, !.east_asia = <<"Consolas">>]

----------------------------------------------------------------------------
(* AST nodes (xml.etree.ElementTree elements) *)

\* an element: tag, text, tail, the href attribute (<<>> when absent), children
Node(tag, text, tail, href, children) ==
    [tag |-> tag, text |-> text, tail |-> tail, href |-> href,
     children |-> children]

\* elem.findall(t): the direct children with tag t, in order
FindAll(n, t) == SelectSeq(n.children, LAMBDA c : c.tag = t)

RECURSIVE IterText(_), IterTextSeq(_)
\* elem.itertext(), joined
IterText(n) == n.text \o IterTextSeq(n.children)
IterTextSeq(cs) ==
    IF cs = <<>> THEN <<>>
    ELSE IterText(Head(cs)) \o Head(cs).tail \o IterTextSeq(Tail(cs))

Whitespace == {" ", "\n"}

RECURSIVE LStrip(_)
LStrip(s) == IF s # <<>> /\ Head(s) \in Whitespace THEN LStrip(Tail(s)) ELSE s

RECURSIVE RStrip(_)
RStrip(s) ==
    IF s # <<>> /\ s[Len(s)] \in Whitespace
    THEN RStrip(SubSeq(s, 1, Len(s) - 1)) ELSE s

\* str.strip()
Strip(s) == RStrip(LStrip(s))

----------------------------------------------------------------------------
(* Inline renderer: _add_inline; a paragraph is the sequence of its runs *)

\* f" ({href})"
HrefNote(href) == <<" ", "(">> \o href \o <<")">>

\* the run of a node's text or of a child's tail: add_run + _apply_style(run)
PlainRun(registry, text) == ApplyStyle(registry, NewRun(text), EmptyDict, "response")

RECURSIVE AddInline(_, _, _), AddInlineChildren(_, _, _)

\* one iteration of "for child in list(node)", without the tail
AddInlineChild(registry, runs, child) ==
    CASE child.tag \in {"strong", "b"} ->
           Append(runs, ApplyStyle(registry, NewRun(child.text),
                                   [is_bold |-> TRUE], "response"))
      [] child.tag \in {"em", "i"} ->
           Append(runs, ApplyStyle(registry, NewRun(child.text),
                                   [is_italic |-> TRUE], "response"))
      [] child.tag = "code" ->
           Append(runs, ForceConsolas(PlainRun(registry, child.text)))
      [] child.tag = "a" ->
           LET withText == Append(runs, PlainRun(registry, child.text))
           IN IF child.href # <<>> /\ child.href # child.text
              THEN Append(withText, PlainRun(registry, HrefNote(child.href)))
              ELSE withText
      [] OTHER -> AddInline(registry, runs, child)

\* "if child.tail: ..."
AddTail(registry, runs, child) ==
    IF child.tail # <<>> THEN Append(runs, PlainRun(registry, child.tail))
    ELSE runs

AddInlineChildren(registry, runs, cs) ==
    IF cs = <<>> THEN runs
    ELSE AddInlineChildren(
             registry,
             AddTail(registry, AddInlineChild(registry, runs, Head(cs)), Head(cs)),
             Tail(cs))

\* _add_inline(paragraph, node)
AddInline(registry, runs, node) ==
    AddInlineChildren(
        registry,
        IF node.text # <<>> THEN Append(runs, PlainRun(registry, node.text))
        ELSE runs,
        node.children)

----------------------------------------------------------------------------
(* The document: blocks, and the block renderer _process_element.  A call  *)
(* works on d = [blocks, err]; once d.err is not "none" an exception is    *)
(* propagating and nothing more is appended.                               *)

Block(kind, pstyle, level, runs, rows, cols, cells) ==
    [kind |-> kind, style |-> pstyle, level |-> level, runs |-> runs,
     rows |-> rows, cols |-> cols, cells |-> cells]

\* doc.add_paragraph(style=...) with its runs; "" is no named style
Paragraph(pstyle, runs) == Block("paragraph", pstyle, 0, runs, 0, 0, <<>>)

\* doc.add_heading(level=...) with its runs
Heading(level, runs) == Block("heading", "", level, runs, 0, 0, <<>>)

\* doc.add_table(rows=, cols=): rows * cols cells, row by row, each cell's
\* first paragraph empty
NewTable(rows, cols) ==
    Block("table", "", 0, <<>>, rows, cols, [i \in 1..(rows * cols) |-> <<>>])

\* doc.add_page_break()
PageBreak == Block("pagebreak", "", 0, <<>>, 0, 0, <<>>)

NoError(blocks) == [blocks |-> blocks, err |-> "none"]

AddBlock(d, b) == [d EXCEPT !.blocks = Append(@, b)]

\* table.cell(r_idx, c_idx) of python-docx, 0-based: the cell at position
\* c_idx + r_idx * column_count of the table's cell list; 0 (IndexError) when
\* that position is beyond the list
CellIndex(t, r_idx, c_idx) ==
    LET i == c_idx + r_idx * t.cols + 1
    IN IF i <= Len(t.cells) THEN i ELSE 0

\* "List Bullet" if child.tag == "ul" else "List Number"; the constants of
\* the ul and ol branches
ListStyleFor(tag) == IF tag = "ul" THEN "List Bullet" ELSE "List Number"

ItemStyleMut(tag, ls) == IF ls # "" THEN ls ELSE ListStyleFor(tag)

\* the hint the ul and ol branches give their items: "List Bullet" in the ul
\* branch, "List Number" in the ol branch; the list_style they received is
\* not read
ItemStyle(tag, ls) == ListStyleFor(tag)

\* int(tag[1]) for h1..h6
HeadingLevel(tag) ==
    CASE tag = "h1" -> 1 [] tag = "h2" -> 2 [] tag = "h3" -> 3
      [] tag = "h4" -> 4 [] tag = "h5" -> 5 [] tag = "h6" -> 6

HeadingTags == {"h1", "h2", "h3", "h4", "h5", "h6"}

\* rows[0].findall("th") or rows[0].findall("td"); row.findall("th") or ...
RowCells(row) ==
    IF FindAll(row, "th") # <<>> THEN FindAll(row, "th") ELSE FindAll(row, "td")

RECURSIVE FillCells(_, _, _, _, _)
\* "for c_idx, cell in enumerate(cells)" of row r_idx, from cell c_idx on;
\* d's last block is the table
FillCells(registry, d, r_idx, cells, c_idx) ==
    IF d.err # "none" \/ c_idx >= Len(cells) THEN d
    ELSE LET n == Len(d.blocks)
             t == d.blocks[n]
             i == CellIndex(t, r_idx, c_idx)
         IN IF i = 0 THEN [d EXCEPT !.err = "IndexError"]
            ELSE FillCells(
                     registry,
                     [d EXCEPT !.blocks[n].cells[i] =
                                   AddInline(registry, @, cells[c_idx + 1])],
                     r_idx, cells, c_idx + 1)

RECURSIVE FillRows(_, _, _, _)
\* "for r_idx, row in enumerate(rows)", from row r_idx on
FillRows(registry, d, rows, r_idx) ==
    IF d.err # "none" \/ r_idx >= Len(rows) THEN d
    ELSE FillRows(registry,
                  FillCells(registry, d, r_idx, RowCells(rows[r_idx + 1]), 0),
                  rows, r_idx + 1)

TableRowsMut(e) == e.children

\* rows = elem.findall("tr")
TableRows(e) == FindAll(e, "tr")

\* the table branch
ProcessTable(registry, d, e) ==
    LET rows == TableRows(e)
    IN IF rows = <<>> THEN d
       ELSE FillRows(registry,
                     AddBlock(d, NewTable(Len(rows), Len(RowCells(rows[1])))),
                     rows, 0)

\* the pre branch
ProcessPre(registry, d, e) ==
    AddBlock(d, Paragraph("", <<ForceConsolas(PlainRun(registry, Strip(IterText(e))))>>))

RECURSIVE ProcessElement(_, _, _, _), ProcessEach(_, _, _, _)

\* "for child in list(elem): if child.tag in {ul, ol}: _process_element(...)"
NestedLists(e) == SelectSeq(e.children, LAMBDA c : c.tag \in {"ul", "ol"})

\* calls _process_element on each element of es, es[i] with hint hints[i]
ProcessEach(registry, d, es, hints) ==
    IF es = <<>> \/ d.err # "none" THEN d
    ELSE ProcessEach(registry,
                     ProcessElement(registry, d, Head(es), Head(hints)),
                     Tail(es), Tail(hints))

\* _process_element(elem, list_style); "" is list_style None
ProcessElement(registry, d, e, ls) ==
    IF d.err # "none" THEN d
    ELSE CASE e.tag \in {"p", "li"} ->
                LET nested == NestedLists(e)
                IN ProcessEach(
                       registry,
                       AddBlock(d, Paragraph(ls, AddInline(registry, <<>>, e))),
                       nested,
                       [i \in 1..Len(nested) |-> ListStyleFor(nested[i].tag)])
           [] e.tag \in HeadingTags ->
                AddBlock(d, Heading(HeadingLevel(e.tag), AddInline(registry, <<>>, e)))
           [] e.tag \in {"ul", "ol"} ->
                LET items == FindAll(e, "li")
                IN ProcessEach(registry, d, items,
                               [i \in 1..Len(items) |-> ItemStyle(e.tag, ls)])
           [] e.tag = "pre" -> ProcessPre(registry, d, e)
           [] e.tag = "table" -> ProcessTable(registry, d, e)
           [] OTHER ->
                IF e.text # <<>>
                THEN AddBlock(d, Paragraph("", AddInline(registry, <<>>, e)))
                ELSE d

----------------------------------------------------------------------------
(* Inputs: bounded families of element trees.  A family is built from      *)
(* node variants (tag, text present, tail present, href) and a nesting     *)
(* relation, up to a number of nodes; Relabel then gives every text, tail  *)
(* and href of a tree a distinct value, so that a text can be followed     *)
(* from the tree into the document.                                        *)

MaxNodes == 2       \* nodes below the root of an inline tree
MaxListNodes == 4   \* nodes below the root of a list tree
MaxRows == 2        \* rows of a table tree
MaxCells == 2       \* cells of a table row
MaxBatch == 3       \* records of a batch

Variant(tag, text, tail, href) ==
    [tag |-> tag, text |-> text, tail |-> tail, href |-> href]

\* inline nodes: an unrecognised wrapper (span), emphasis, code, links with
\* an href equal to or different from their text
InlineVariants ==
    { Variant("span", <<"t">>, <<>>, <<>>), Variant("span", <<"t">>, <<"l">>, <<>>),
      Variant("span", <<>>, <<>>, <<>>),
      Variant("strong", <<"t">>, <<>>, <<>>), Variant("strong", <<"t">>, <<"l">>, <<>>),
      Variant("strong", <<>>, <<"l">>, <<>>),
      Variant("em", <<"t">>, <<>>, <<>>), Variant("em", <<"t">>, <<"l">>, <<>>),
      Variant("code", <<"t">>, <<"l">>, <<>>),
      Variant("a", <<"t">>, <<"l">>, <<"h">>), Variant("a", <<"t">>, <<>>, <<"same">>) }

ListVariants ==
    { Variant("ul", <<>>, <<>>, <<>>), Variant("ol", <<>>, <<>>, <<>>),
      Variant("li", <<"t">>, <<>>, <<>>), Variant("strong", <<"t">>, <<"l">>, <<>>) }

FamilyVariants(fam) == IF fam = "inline" THEN InlineVariants ELSE ListVariants

\* which child tags a family puts under a parent tag
Allowed(fam, ptag, ctag) ==
    IF fam = "inline" THEN TRUE
    ELSE CASE ptag \in {"ul", "ol"} -> ctag = "li"
           [] ptag = "li" -> ctag \in {"ul", "ol", "strong"}
           [] OTHER -> FALSE

RECURSIVE Forests(_, _, _)
\* the sequences of trees of family fam under a parent ptag, n nodes at most
Forests(fam, n, ptag) ==
    {<<>>} \cup
    UNION { UNION { { <<Node(v.tag, v.text, v.tail, v.href, kids)>> \o rest :
                        kids \in Forests(fam, k - 1, v.tag),
                        rest \in Forests(fam, n - k, ptag) } :
                    v \in {w \in FamilyVariants(fam) : Allowed(fam, ptag, w.tag)} } :
            k \in 1..n }

RECURSIVE Relabel(_, _)
\* the tree with the path of each node written into its text, tail and href
Relabel(n, path) ==
    LET text == IF n.text = <<>> THEN <<>>
                ELSE <<Head(n.text)>> \o path \o Tail(n.text)
    IN Node(n.tag, text,
            IF n.tail = <<>> THEN <<>> ELSE <<Head(n.tail)>> \o path \o Tail(n.tail),
            IF n.href = <<>> THEN <<>>
            ELSE IF n.href = <<"same">> THEN text ELSE n.href \o path,
            [i \in 1..Len(n.children) |-> Relabel(n.children[i], path \o <<Digit(i)>>)])

InlineTrees ==
    { Relabel(Node("p", text, <<>>, <<>>, kids), <<>>) :
        text \in {<<>>, <<"t">>}, kids \in Forests("inline", MaxNodes, "p") }

ListTrees ==
    UNION { { Relabel(Node(tag, <<>>, <<>>, <<>>, kids), <<>>) :
                kids \in Forests("list", MaxListNodes, tag) } :
            tag \in {"ul", "ol"} }

\* a row of n cells of one kind, and the row <<th, td>>
RowShapes ==
    { [i \in 1..n |-> Node(kind, <<"t">>, <<>>, <<>>, <<>>)] :
        n \in 0..MaxCells, kind \in {"th", "td"} }
    \cup { <<Node("th", <<"t">>, <<>>, <<>>, <<>>), Node("td", <<"t">>, <<>>, <<>>, <<>>)>> }

RECURSIVE RowSeqs(_)
\* the sequences of n rows at most
RowSeqs(n) ==
    IF n = 0 THEN {<<>>}
    ELSE RowSeqs(n - 1) \cup
         { Append(rs, Node("tr", <<>>, <<>>, <<>>, cells)) :
             rs \in {x \in RowSeqs(n - 1) : Len(x) = n - 1}, cells \in RowShapes }

\* the tree xml.etree builds from python-markdown's HTML for the pipe table
\* "| a | b |\n|---|---|\n| 1 | 2 |": rows inside thead and tbody
MdTableTree ==
    Node("table", <<"\n">>, <<>>, <<>>,
         << Node("thead", <<"\n">>, <<"\n">>, <<>>,
                 << Node("tr", <<"\n">>, <<"\n">>, <<>>,
                         << Node("th", <<"a">>, <<"\n">>, <<>>, <<>>),
                            Node("th", <<"b">>, <<"\n">>, <<>>, <<>>) >>) >>),
            Node("tbody", <<"\n">>, <<"\n">>, <<>>,
                 << Node("tr", <<"\n">>, <<"\n">>, <<>>,
                         << Node("td", <<"1">>, <<"\n">>, <<>>, <<>>),
                            Node("td", <<"2">>, <<"\n">>, <<>>, <<>>) >>) >>) >>)

TableTrees ==
    { Relabel(Node("table", <<>>, <<>>, <<>>, rows), <<>>) : rows \in RowSeqs(MaxRows) }
    \cup {MdTableTree}

\* headings, code blocks, unrecognised blocks with and without text, and a
\* list item outside a list
OtherTrees ==
    { Relabel(Node(tag, <<"t">>, <<>>, <<>>,
                   <<Node("strong", <<"t">>, <<"l">>, <<>>, <<>>)>>), <<>>) :
        tag \in HeadingTags \cup {"div", "li"} }
    \cup { Relabel(Node("div", <<>>, <<>>, <<>>,
                        <<Node("span", <<"t">>, <<"l">>, <<>>, <<>>)>>), <<>>),
           Node("pre", <<>>, <<>>, <<>>,
                <<Node("code", <<"c", " ", "d", "\n">>, <<>>, <<>>, <<>>)>>),
           Node("pre", <<" ", "c">>, <<>>, <<>>,
                <<Node("span", <<"d">>, <<"e", " ">>, <<>>, <<>>)>>) }

\* style registries the renderer is run with
RenderRegistries ==
    { EmptyDict,
      [response |-> [is_bold |-> TRUE]],
      [response |-> [is_italic |-> TRUE, font_name |-> "Arial"],
       prompt |-> [is_bold |-> TRUE]] }

ListStyles == {"", "List Bullet", "List Number"}

----------------------------------------------------------------------------
(* SpecRender: one call _process_element(elem, list_style) on an empty     *)
(* document.                                                               *)

InitRender ==
    /\ pc = "render_start"
    /\ styles \in RenderRegistries
    /\ \/ elem \in InlineTrees \cup OtherTrees /\ list_style = "" /\ doc = <<>>
       \/ elem \in ListTrees /\ list_style \in ListStyles /\ doc = <<>>
       \/ elem \in TableTrees /\ list_style = "" /\ doc \in {<<>>, <<PageBreak>>}
    /\ err = "none"
    /\ resultats = Idle /\ succeeded = Idle /\ failed = Idle /\ idx = 0
    /\ output = Idle
    /\ run = Idle /\ style_name = Idle /\ style_overrides = Idle /\ style = Idle

ProcessElementCall ==
    /\ pc = "render_start"
    /\ LET d == ProcessElement(styles, NoError(doc), elem, list_style)
       IN doc' = d.blocks /\ err' = d.err
    /\ pc' = "render_done"
    /\ UNCHANGED <<styles, elem, list_style, resultats, succeeded, failed, idx,
                   output, run, style_name, style_overrides, style>>

NextRender == ProcessElementCall

SpecRender == InitRender /\ [][NextRender]_vars

----------------------------------------------------------------------------
(* Reading a tree and a document, for the properties below *)

RECURSIVE TreeTexts(_), ForestTexts(_)
\* the non-empty texts and tails of a tree, in document order
TreeTexts(n) == (IF n.text = <<>> THEN <<>> ELSE <<n.text>>) \o ForestTexts(n.children)
ForestTexts(cs) ==
    IF cs = <<>> THEN <<>>
    ELSE TreeTexts(Head(cs))
         \o (IF Head(cs).tail = <<>> THEN <<>> ELSE <<Head(cs).tail>>)
         \o ForestTexts(Tail(cs))

RECURSIVE TreeTags(_)
\* the tags of a tree
TreeTags(n) == {n.tag} \cup UNION {TreeTags(n.children[i]) : i \in DOMAIN n.children}

RECURSIVE ChildrenTagged(_, _)
\* the nodes of a tree that are children (at any depth) and carry a tag of tags
ChildrenTagged(n, tags) ==
    {n.children[i] : i \in {j \in DOMAIN n.children : n.children[j].tag \in tags}}
    \cup UNION {ChildrenTagged(n.children[i], tags) : i \in DOMAIN n.children}

SeqRange(s) == {s[i] : i \in DOMAIN s}

\* the runs of a block, in order (a table's cells row by row)
BlockRuns(b) == IF b.kind = "table" THEN Flatten(b.cells) ELSE b.runs

\* the runs of a document, in order
DocRuns(blocks) == Flatten([i \in DOMAIN blocks |-> BlockRuns(blocks[i])])

RunTexts(runs) == [i \in DOMAIN runs |-> runs[i].text]

Count(s, x) == Cardinality({i \in DOMAIN s : s[i] = x})

Rendered == pc = "render_done"

----------------------------------------------------------------------------
(* C2 *)

BlockTags == {"table", "ul", "ol", "pre"} \cup HeadingTags

\* C2: for a tree without table, ul, ol, pre and heading tags, the texts and
\* tails of the tree, nested ones included, are each one run, in document
\* order: the runs that carry a text of the tree are exactly the tree's texts.
C2_EveryTextOneRun ==
    (Rendered /\ TreeTags(elem) \cap BlockTags = {}) =>
        SelectSeq(RunTexts(DocRuns(doc)),
                  LAMBDA t : t \in SeqRange(TreeTexts(elem)))
            = TreeTexts(elem)

----------------------------------------------------------------------------
(* C3 *)

DirectCells(row) ==
    LET th == SelectSeq(row.children, LAMBDA c : c.tag = "th")
    IN IF th # <<>> THEN th ELSE SelectSeq(row.children, LAMBDA c : c.tag = "td")

DirectRows(e) == SelectSeq(e.children, LAMBDA c : c.tag = "tr")

\* a table whose later rows have more cells than its first row
HasExcessCells(e) ==
    /\ e.tag = "table"
    /\ DirectRows(e) # <<>>
    /\ \E r \in 2..Len(DirectRows(e)) :
          Len(DirectCells(DirectRows(e)[r])) > Len(DirectCells(DirectRows(e)[1]))

\* C3: rendering a table whose later rows have more cells than the first row
\* raises no error, adds a table of (rows x first-row cells), and every cell
\* within these dimensions holds the text of its own cell of the tree.
C3_ExcessCellsIgnored ==
    (Rendered /\ HasExcessCells(elem)) =>
        LET rows == DirectRows(elem)
            cols == Len(DirectCells(rows[1]))
            t == doc[Len(doc)]
        IN /\ err = "none"
           /\ doc # <<>>
           /\ t.kind = "table" /\ t.rows = Len(rows) /\ t.cols = cols
           /\ Len(t.cells) = Len(rows) * cols
           /\ \A r \in 1..Len(rows) : \A c \in 1..cols :
                 c <= Len(DirectCells(rows[r])) =>
                     RunTexts(t.cells[(r - 1) * cols + c])
                         = TreeTexts(DirectCells(rows[r])[c])

----------------------------------------------------------------------------
(* C6 *)

RowlessTable(e) ==
    e.tag = "table" /\ \A i \in DOMAIN e.children : e.children[i].tag # "tr"

\* C6: the call that renders a table with no tr child leaves the document as
\* it was and raises nothing.
C6_RowlessTableNoEffect ==
    [][(pc = "render_start" /\ RowlessTable(elem)) =>
           (doc' = doc /\ err' = "none")]_vars

C6_Witness ==
    Rendered /\ RowlessTable(elem) /\ elem.children # <<>> /\ doc = <<PageBreak>>

----------------------------------------------------------------------------
(* C8 *)

RECURSIVE ExpectedItemStyles(_)
\* for a list: the style of each item paragraph as the tag of the item's own
\* list gives it, items in document order, each followed by the items of the
\* lists nested directly in it
ExpectedItemStyles(l) ==
    LET items == SelectSeq(l.children, LAMBDA c : c.tag = "li")
        own == IF l.tag = "ul" THEN "List Bullet" ELSE "List Number"
        nestedOf(it) == SelectSeq(it.children, LAMBDA c : c.tag \in {"ul", "ol"})
    IN Flatten([i \in DOMAIN items |->
                 <<own>> \o Flatten([j \in DOMAIN nestedOf(items[i]) |->
                                      ExpectedItemStyles(nestedOf(items[i])[j])])])

\* C8: every item paragraph carries the style of its immediate parent list
\* tag (List Bullet under ul, List Number under ol), whatever hint the call
\* received and at any nesting.
C8_ItemStyleFromParent ==
    (Rendered /\ elem.tag \in {"ul", "ol"}) =>
        /\ \A i \in DOMAIN doc : doc[i].kind = "paragraph"
        /\ [i \in DOMAIN doc |-> doc[i].style] = ExpectedItemStyles(elem)

\* an ol nested in an item of a ul, rendered with a hint that contradicts
\* the root's tag
C8_Witness ==
    /\ Rendered /\ elem.tag = "ul" /\ list_style = "List Number"
    /\ Len(doc) >= 3
    /\ doc[1].style = "List Bullet" /\ doc[2].style = "List Number"
    /\ doc[3].style = "List Bullet"

----------------------------------------------------------------------------
(* C9 *)

HasNestedList(e) ==
    \E it \in ChildrenTagged(e, {"li"}) :
        \E i \in DOMAIN it.children : it.children[i].tag \in {"ul", "ol"}

\* C9: when an item has a nested list, every text of the tree is in the
\* document exactly once: a nested item's text is a run of its own paragraph
\* only, never also a run of the parent item's paragraph.
C9_NestedTextOnce ==
    (Rendered /\ elem.tag \in {"ul", "ol"} /\ HasNestedList(elem)) =>
        \A t \in SeqRange(TreeTexts(elem)) : Count(RunTexts(DocRuns(doc)), t) = 1

----------------------------------------------------------------------------
(* C10 *)

BaseFlag(key) ==
    IF "response" \in DOMAIN styles /\ key \in DOMAIN styles["response"]
    THEN styles["response"][key] ELSE FALSE

TextsOf(nodes) == {n.text : n \in nodes}

TailsOf(nodes) == {n.tail : n \in {m \in nodes : m.tail # <<>>}}

\* C10: every run has bold and italic set to true or to false; a run is bold
\* (italic) only if the base style is or it is the text of a strong/b (em/i)
\* child; the tail run after a strong or em child has the base style's flags.
C10_ExplicitEmphasis ==
    Rendered =>
        \A i \in DOMAIN DocRuns(doc) :
            LET r == DocRuns(doc)[i]
            IN /\ r.bold \in {<<TRUE>>, <<FALSE>>}
               /\ r.italic \in {<<TRUE>>, <<FALSE>>}
               /\ r.bold = <<TRUE>> =>
                     \/ BaseFlag("is_bold")
                     \/ r.text \in TextsOf(ChildrenTagged(elem, {"strong", "b"}))
               /\ r.italic = <<TRUE>> =>
                     \/ BaseFlag("is_italic")
                     \/ r.text \in TextsOf(ChildrenTagged(elem, {"em", "i"}))
               /\ r.text \in TailsOf(ChildrenTagged(elem, {"strong", "b", "em", "i"})) =>
                     /\ r.bold = <<BaseFlag("is_bold")>>
                     /\ r.italic = <<BaseFlag("is_italic")>>

\* a strong child with a tail under a base style that sets no bold: its run
\* is bold and the tail run that follows is explicitly not
C10_Witness ==
    /\ Rendered /\ ~BaseFlag("is_bold") /\ elem.tag = "p"
    /\ Len(elem.children) >= 1
    /\ elem.children[1].tag = "strong" /\ elem.children[1].tail # <<>>
    /\ elem.children[1].text # <<>> /\ elem.text = <<>>
    /\ doc # <<>> /\ Len(doc[1].runs) >= 2
    /\ doc[1].runs[1].text = elem.children[1].text /\ doc[1].runs[1].bold = <<TRUE>>
    /\ doc[1].runs[2].text = elem.children[1].tail /\ doc[1].runs[2].bold = <<FALSE>>

----------------------------------------------------------------------------
(* SpecStyle: one call _apply_style(run, style_overrides, style_name=...)  *)
(* on a fresh run, for every registry, name and override mapping over the  *)
(* five style keys.                                                        *)

\* the dict with the keys whose option is set
DictOf(fn, fs, fc, b, i) ==
    LET o == [font_name |-> fn, font_size |-> fs, font_color_rgb |-> fc,
              is_bold |-> b, is_italic |-> i]
    IN [k \in {x \in StyleKeys : o[x] # <<>>} |-> o[k][1]]

Descriptors ==
    { DictOf(fn, fs, fc, b, i) :
        fn \in {<<>>, <<"Arial">>, <<"">>},
        fs \in {<<>>, <<11>>},
        fc \in {<<>>, <<<<255, 0, 0>>>>},
        b \in {<<>>, <<TRUE>>, <<FALSE>>},
        i \in {<<>>, <<TRUE>>, <<FALSE>>} }

InitStyle ==
    /\ pc = "style_start"
    /\ styles \in {EmptyDict} \cup {[response |-> d] : d \in Descriptors}
    /\ style_name \in {"response", "prompt"}
    /\ style_overrides \in Descriptors
    /\ run = NewRun(<<"x">>)
    /\ style = Idle
    /\ doc = Idle /\ err = "none" /\ elem = Idle /\ list_style = Idle
    /\ resultats = Idle /\ succeeded = Idle /\ failed = Idle /\ idx = 0
    /\ output = Idle

ApplyStyleCall ==
    /\ pc = "style_start"
    /\ style' = EffectiveStyle(styles, style_name, style_overrides)
    /\ run' = ApplyStyle(styles, run, style_overrides, style_name)
    /\ pc' = "style_done"
    /\ UNCHANGED <<styles, doc, err, elem, list_style, resultats, succeeded,
                   failed, idx, output, style_name, style_overrides>>

NextStyle == ApplyStyleCall

SpecStyle == InitStyle /\ [][NextStyle]_vars

----------------------------------------------------------------------------
(* C5 *)

\* C5: the effective style has every key of the overrides at the override's
\* value, every other key of the registry's entry at the entry's value, and
\* no further key; the run gets bold and italic from it (false when the key
\* is missing) and a font name, size and colour only where it gives one; a
\* missing name with no overrides gives bold = false, italic = false and no
\* font name, size or colour.
C5_OverridesWin ==
    pc = "style_done" =>
        LET base == IF style_name \in DOMAIN styles THEN styles[style_name]
                    ELSE EmptyDict
            has(k) == k \in DOMAIN style
        IN /\ \A k \in StyleKeys :
                 /\ k \in DOMAIN style_overrides =>
                        has(k) /\ style[k] = style_overrides[k]
                 /\ (k \notin DOMAIN style_overrides /\ k \in DOMAIN base) =>
                        has(k) /\ style[k] = base[k]
                 /\ (k \notin DOMAIN style_overrides /\ k \notin DOMAIN base) =>
                        ~has(k)
           /\ run.bold = <<IF has("is_bold") THEN style["is_bold"] ELSE FALSE>>
           /\ run.italic = <<IF has("is_italic") THEN style["is_italic"] ELSE FALSE>>
           /\ run.font_name = IF has("font_name") /\ style["font_name"] # ""
                              THEN <<style["font_name"]>> ELSE <<>>
           /\ run.font_size = IF has("font_size") /\ style["font_size"] # 0
                              THEN <<style["font_size"]>> ELSE <<>>
           /\ run.font_color_rgb =
                  IF has("font_color_rgb") /\ style["font_color_rgb"] # <<>>
                  THEN <<style["font_color_rgb"]>> ELSE <<>>
           /\ (style_name \notin DOMAIN styles /\ style_overrides = EmptyDict) =>
                 /\ run.bold = <<FALSE>> /\ run.italic = <<FALSE>>
                 /\ run.font_name = <<>> /\ run.font_size = <<>>
                 /\ run.font_color_rgb = <<>>

\* an override that contradicts the registry's entry on one key while the
\* entry supplies another
C5_Witness ==
    /\ pc = "style_done" /\ style_name = "response"
    /\ styles = [response |-> [is_bold |-> TRUE, font_name |-> "Arial"]]
    /\ style_overrides = [is_bold |-> FALSE, is_italic |-> TRUE]
    /\ run.bold = <<FALSE>> /\ run.italic = <<TRUE>> /\ run.font_name = <<"Arial">>

----------------------------------------------------------------------------
(* Markdown block converter: add_markdown.  markdown.Markdown.convert and  *)
(* ElementTree.fromstring are libraries; MdParse gives, for the Markdown   *)
(* texts the model uses, the children of the <root> element they produce,  *)
(* or ok = FALSE where fromstring raises ParseError.                       *)

MdBold == "**bold** text"
MdTable == "| a | b |\n|---|---|\n| 1 | 2 |"
MdHeadingList == "# T\n\n- x\n- y"
MdRawHtml == "x<br>y"

MdParse(text) ==
    CASE text = MdBold ->
           [ok |-> TRUE,
            elems |-> << Node("p", <<>>, <<>>, <<>>,
                              << Node("strong", <<"bold">>, <<" text">>, <<>>, <<>>) >>) >>]
      [] text = MdTable -> [ok |-> TRUE, elems |-> <<MdTableTree>>]
      [] text = MdHeadingList ->
           [ok |-> TRUE,
            elems |-> << Node("h1", <<"T">>, <<"\n">>, <<>>, <<>>),
                         Node("ul", <<"\n">>, <<>>, <<>>,
                              << Node("li", <<"x">>, <<"\n">>, <<>>, <<>>),
                                 Node("li", <<"y">>, <<"\n">>, <<>>, <<>>) >>) >>]
      [] text = MdRawHtml -> [ok |-> FALSE, elems |-> <<>>]

AddMarkdownMut(registry, d, text) ==
    IF text = "" \/ ~MdParse(text).ok THEN d
    ELSE LET elems == MdParse(text).elems
         IN ProcessEach(registry, d, elems, [i \in 1..Len(elems) |-> ""])

\* add_markdown(text)
AddMarkdown(registry, d, text) ==
    IF text = "" THEN d
    ELSE IF ~MdParse(text).ok THEN [d EXCEPT !.err = "ParseError"]
    ELSE LET elems == MdParse(text).elems
         IN ProcessEach(registry, d, elems, [i \in 1..Len(elems) |-> ""])

----------------------------------------------------------------------------
(* Batch records and generer_export_docx *)

\* a record as dict(res) gives it; status <<>> is a record without status,
\* error.type is the Python type of the "error" value
Record(status, prompt_text, custom_id, clean_response, response, error) ==
    [status |-> status, prompt_text |-> prompt_text, custom_id |-> custom_id,
     clean_response |-> clean_response, response |-> response, error |-> error]

ErrorValue(type, value, serializable) ==
    [type |-> type, value |-> value, serializable |-> serializable]

NoErrorValue == ErrorValue("NoneType", <<>>, TRUE)

\* record shapes: succeeded records with a response in clean_response or in
\* response; other records ("failed" or no status) with a dict, a string, no
\* error, or a dict json cannot serialise, and with or without prompt_text
RecordShapes ==
    { Record(<<"succeeded">>, <<"Q">>, <<"id">>, r[1], r[2], NoErrorValue) :
        r \in { <<"", "">>, <<"", MdBold>>, <<MdBold, "">>, <<MdTable, MdBold>>,
                <<MdHeadingList, "">>, <<MdRawHtml, "">> } }
    \cup
    { Record(st, qe[1], <<"id">>, MdBold, "", qe[2]) :
        st \in {<<"failed">>, <<>>},
        qe \in { <<<<"Q">>, ErrorValue("dict", <<"code">>, TRUE)>>,
                 <<<<"Q">>, ErrorValue("str", <<"boom">>, TRUE)>>,
                 <<<<>>, NoErrorValue>>,
                 <<<<"Q">>, ErrorValue("dict", <<"obj">>, FALSE)>> } }

\* the record with its position written into prompt_text, custom_id and error
Numbered(r, i) ==
    [r EXCEPT !.prompt_text = IF @ = <<>> THEN <<>> ELSE @ \o <<Digit(i)>>,
              !.custom_id = @ \o <<Digit(i)>>,
              !.error.value = IF @ = <<>> THEN <<>> ELSE @ \o <<Digit(i)>>]

\* the batches of n records
Batches(n) == { [i \in 1..n |-> Numbered(rs[i], i)] : rs \in [1..n -> RecordShapes] }

ExportRegistries ==
    { EmptyDict, [prompt |-> [is_bold |-> TRUE], response |-> EmptyDict] }

IsSucceededMut(data) == data.status # <<"failed">>

\* data.get("status") == "succeeded"
IsSucceeded(data) == data.status = <<"succeeded">>

\* item.get("clean_response") or item.get("response", "")
ResponseText(item) ==
    IF item.clean_response # "" THEN item.clean_response ELSE item.response

\* item.get("prompt_text") or item.get("custom_id")
Title(item) == IF item.prompt_text # <<>> THEN item.prompt_text ELSE item.custom_id

\* json.dumps(err, ensure_ascii=False, indent=2) of a one-key dict
JsonDumps(value) == <<"{", "\n", " ", " ">> \o value \o <<"\n", "}">>

\* str(err)
Str(e) == IF e.type = "NoneType" THEN <<"N", "o", "n", "e">> ELSE e.value

\* doc.add_paragraph(text, style=...): a run only when text is not empty
TextParagraph(text, pstyle) ==
    Paragraph(pstyle, IF text = <<>> THEN <<>> ELSE <<NewRun(text)>>)

AnnexTitle == <<"Annexe - Requêtes échouées">>

\* one iteration of "for item in failed"
AnnexItem(d, item) ==
    IF d.err # "none" THEN d
    ELSE LET titled == AddBlock(d, TextParagraph(Title(item), "List Bullet"))
             e == item.error
         IN IF e.type = "dict"
            THEN IF e.serializable
                 THEN AddBlock(titled, TextParagraph(JsonDumps(e.value), ""))
                 ELSE [titled EXCEPT !.err = "TypeError"]
            ELSE AddBlock(titled, TextParagraph(Str(e), ""))

RECURSIVE AnnexItems(_, _)
AnnexItems(d, items) ==
    IF items = <<>> THEN d ELSE AnnexItems(AnnexItem(d, Head(items)), Tail(items))

\* the annex section: "if failed: ..."
Annex(d, items) ==
    IF items = <<>> THEN d
    ELSE AnnexItems(AddBlock(AddBlock(d, PageBreak),
                             Heading(1, <<NewRun(AnnexTitle)>>)),
                    items)

\* one iteration of "for item in succeeded", up to the separator paragraph
MainItem(registry, d, item) ==
    LET prompted ==
            AddBlock(d, Paragraph("", <<ApplyStyle(registry, NewRun(item.prompt_text),
                                                   EmptyDict, "prompt")>>))
        answered == AddMarkdown(registry, prompted, ResponseText(item))
    IN IF answered.err # "none" THEN answered
       ELSE AddBlock(answered, Paragraph("", <<>>))

\* output = io.BytesIO(); doc.save(output): the stream holds the document and
\* stands at its end
Saved(blocks) == [data |-> blocks, pos |-> Len(blocks)]

\* output.seek(0)
SeekStart(stream) == [stream EXCEPT !.pos = 0]

InitExport ==
    /\ pc = "classify"
    /\ \E n \in 0..MaxBatch : resultats \in Batches(n)
    /\ styles \in ExportRegistries
    /\ doc = <<>> /\ err = "none"
    /\ succeeded = <<>> /\ failed = <<>> /\ idx = 0
    /\ output = <<>>
    /\ elem = Idle /\ list_style = Idle
    /\ run = Idle /\ style_name = Idle /\ style_overrides = Idle /\ style = Idle

ExportFrame == UNCHANGED <<styles, elem, list_style, resultats, run, style_name,
                           style_overrides, style>>

\* "for res in resultats: ..."
Classify ==
    /\ pc = "classify"
    /\ succeeded' = SelectSeq(resultats, IsSucceeded)
    /\ failed' = SelectSeq(resultats, LAMBDA data : ~IsSucceeded(data))
    /\ pc' = "main"
    /\ UNCHANGED <<doc, err, idx, output>>
    /\ ExportFrame

\* one iteration of "for item in succeeded: ..."
EmitSucceeded ==
    /\ pc = "main" /\ idx < Len(succeeded)
    /\ LET d == MainItem(styles, NoError(doc), succeeded[idx + 1])
       IN /\ doc' = d.blocks
          /\ err' = d.err
          /\ pc' = IF d.err = "none" THEN "main" ELSE "raised"
    /\ idx' = idx + 1
    /\ UNCHANGED <<succeeded, failed, output>>
    /\ ExportFrame

\* the annex, after the main loop
EmitAnnex ==
    /\ pc = "main" /\ idx = Len(succeeded)
    /\ LET d == Annex(NoError(doc), failed)
       IN /\ doc' = d.blocks
          /\ err' = d.err
          /\ pc' = IF d.err = "none" THEN "save" ELSE "raised"
    /\ UNCHANGED <<succeeded, failed, idx, output>>
    /\ ExportFrame

\* save, seek, return
Return ==
    /\ pc = "save"
    /\ output' = SeekStart(Saved(doc))
    /\ pc' = "done"
    /\ UNCHANGED <<doc, err, succeeded, failed, idx>>
    /\ ExportFrame

Next == Classify \/ EmitSucceeded \/ EmitAnnex \/ Return

Spec == InitExport /\ [][Next]_vars

----------------------------------------------------------------------------
(* C1 *)

IsBlank(b) == b.kind = "paragraph" /\ b.runs = <<>>

IsAnnexHeading(b) ==
    b.kind = "heading" /\ b.level = 1 /\ RunTexts(b.runs) = <<AnnexTitle>>

\* C1: of a returned document: the records whose status is "succeeded" (and
\* no others) have their prompt/response blocks first, in input order; when
\* other records exist, one page break, one level-1 annex heading and, per
\* such record in input order, a bulleted title and an error paragraph
\* follow, and nothing else; without such records there is no page break and
\* no annex heading.
C1_SucceededThenAnnex ==
    pc = "done" =>
        LET S == SelectSeq(resultats, LAMBDA r : r.status = <<"succeeded">>)
            F == SelectSeq(resultats, LAMBDA r : r.status # <<"succeeded">>)
            titleOf(r) == IF r.prompt_text # <<>> THEN r.prompt_text ELSE r.custom_id
            mainEnd == IF F = <<>> THEN Len(doc) ELSE Len(doc) - 2 * Len(F) - 2
            isPrompt(b) ==
                /\ b.kind = "paragraph" /\ b.style = "" /\ Len(b.runs) = 1
                /\ \E j \in DOMAIN S : b.runs[1].text = S[j].prompt_text
            prompts == SelectSeq(doc, isPrompt)
        IN /\ mainEnd >= 0
           /\ [j \in DOMAIN prompts |-> prompts[j].runs[1].text]
                  = [j \in DOMAIN S |-> S[j].prompt_text]
           /\ \A i \in DOMAIN doc :
                 isPrompt(doc[i]) => i <= mainEnd /\ (i = 1 \/ IsBlank(doc[i - 1]))
           /\ IF S = <<>> THEN mainEnd = 0
              ELSE isPrompt(doc[1]) /\ IsBlank(doc[mainEnd])
           /\ \A i \in 1..mainEnd :
                 /\ doc[i].kind # "pagebreak" /\ ~IsAnnexHeading(doc[i])
                 /\ \A j \in DOMAIN F :
                       titleOf(F[j]) \notin SeqRange(RunTexts(BlockRuns(doc[i])))
           /\ F # <<>> =>
                 /\ doc[mainEnd + 1].kind = "pagebreak"
                 /\ IsAnnexHeading(doc[mainEnd + 2])
                 /\ \A j \in DOMAIN F :
                       LET t == doc[mainEnd + 2 * j + 1]
                           e == doc[mainEnd + 2 * j + 2]
                       IN /\ t.kind = "paragraph" /\ t.style = "List Bullet"
                          /\ RunTexts(t.runs) = <<titleOf(F[j])>>
                          /\ e.kind = "paragraph" /\ e.style = ""

\* a record without status, then two succeeded records: the two prompt
\* blocks come first, the annex with the first record after them
C1_Witness ==
    /\ pc = "done" /\ Len(resultats) = 3
    /\ resultats[1].status = <<>>
    /\ resultats[2].status = <<"succeeded">> /\ resultats[3].status = <<"succeeded">>
    /\ doc[1].runs[1].text = <<"Q", "2">>
    /\ \E i \in DOMAIN doc : doc[i].kind = "pagebreak"
    /\ RunTexts(doc[Len(doc) - 1].runs) = <<resultats[1].custom_id>>

----------------------------------------------------------------------------
(* C4 *)

\* C4: converting the pipe table "| a | b |\n|---|---|\n| 1 | 2 |" adds a
\* table of 1 row x 2 columns whose cells read "1" and "2".
C4_PipeTableRendered ==
    (pc = "done" /\ Len(resultats) = 1 /\ resultats[1].status = <<"succeeded">>
       /\ resultats[1].clean_response = MdTable) =>
        \E i \in DOMAIN doc :
            /\ doc[i].kind = "table" /\ doc[i].rows = 1 /\ doc[i].cols = 2
            /\ Len(doc[i].cells) = 2
            /\ Flatten(RunTexts(doc[i].cells[1])) = <<"1">>
            /\ Flatten(RunTexts(doc[i].cells[2])) = <<"2">>

----------------------------------------------------------------------------
(* C7 *)

\* a record whose rendering raises: a succeeded record whose response does
\* not parse as a tree, or another record whose error dict cannot be dumped
Fatal(r) ==
    IF r.status = <<"succeeded">>
    THEN (IF r.clean_response # "" THEN r.clean_response ELSE r.response) = MdRawHtml
    ELSE r.error.type = "dict" /\ ~r.error.serializable

\* every record has its block in the document
AllEmitted ==
    \A i \in DOMAIN resultats :
        LET r == resultats[i]
        IN \E j \in DOMAIN doc :
              IF r.status = <<"succeeded">>
              THEN doc[j].style = "" /\ RunTexts(doc[j].runs) = <<r.prompt_text>>
              ELSE /\ doc[j].style = "List Bullet"
                   /\ RunTexts(doc[j].runs) =
                          <<IF r.prompt_text # <<>> THEN r.prompt_text ELSE r.custom_id>>

\* C7: a stream is returned only by a call that has emitted every record,
\* and then holds the whole document and is positioned at 0; a call that
\* raised, and any call on a batch with a fatal record, returns no stream,
\* whatever was rendered before.
C7_NoPartialSuccess ==
    /\ pc \in {"classify", "main", "save", "done", "raised"}
    /\ output # <<>> =>
          /\ pc = "done" /\ err = "none"
          /\ output.pos = 0 /\ output.data = doc
          /\ AllEmitted
    /\ pc = "done" => output # <<>>
    /\ (err # "none" \/ pc = "raised") =>
          pc = "raised" /\ err # "none" /\ output = <<>>
    /\ (\E i \in DOMAIN resultats : Fatal(resultats[i])) => output = <<>>

\* the second succeeded record's response fails to parse after the first
\* record was rendered: the call has raised and returned nothing
C7_Witness ==
    /\ pc = "raised" /\ err = "ParseError" /\ idx = 2 /\ output = <<>>
    /\ Len(doc) >= 3 /\ doc[1].runs[1].text = <<"Q", "1">>
    /\ ~ENABLED Next

=============================================================================
